---- MODULE Spec2Model ----
(***************************************************************************)
(* Model of the CurrencyDetector component (fontend/src/componend/Home.jsx)*)
(* as a state machine: the React state of the component, the position of   *)
(* the asynchronous handleSubmit, the Firebase session bootstrap and the   *)
(* user-interface events that call the component's handlers.               *)
(*                                                                         *)
(* JavaScript values are modelled as follows.  A string is a TLA+ string;  *)
(* an absent (undefined) string field of a server reply is the empty       *)
(* string, which the code treats the same way (both are falsy).  null in a *)
(* record-valued state is the record [null |-> TRUE]; null in the error    *)
(* state is NoError.  The non-ASCII words of the user-visible messages are *)
(* written in English; the ASCII parts the code tests for are kept.        *)
(***************************************************************************)
EXTENDS Integers, Sequences, FiniteSets, TLC

(***************************************************************************)
(* Bounds of the model.                                                    *)
(***************************************************************************)
MaxSubmits == 2
MaxLogouts == 1
MaxClock == 4

(***************************************************************************)
(* Program constants.                                                      *)
(***************************************************************************)
MAX_FILE_SIZE == 10 * 1024 * 1024

\* A loop bound of one attempt more.
maxRetriesPlusOne == 3 + 1

maxRetries == 3
PROGRESS_CAP == 90
PROGRESS_STEP == 30
REQUEST_TIMEOUT == 30000
HISTORY_LIMIT == 10

(***************************************************************************)
(* null values.                                                            *)
(***************************************************************************)
NoFile == [null |-> TRUE]
NoPreview == [null |-> TRUE]
NoResult == [null |-> TRUE]
NoResponse == [null |-> TRUE]
NoUser == [null |-> TRUE]
NoError == "null"
NoUserId == "null"
NoTimestamp == [null |-> TRUE]

(***************************************************************************)
(* String.prototype.startsWith and String.prototype.includes.              *)
(***************************************************************************)
startsWith(s, p) ==
    /\ Len(s) >= Len(p)
    /\ SubSeq(s, 1, Len(p)) = p

includes(s, sub) ==
    \E k \in 1..(Len(s) - Len(sub) + 1) : SubSeq(s, k, k + Len(sub) - 1) = sub

Min(a, b) == IF a < b THEN a ELSE b

(***************************************************************************)
(* The files a user can offer: size in bytes and MIME type.                *)
(***************************************************************************)
FileSizes == {2 * 1024 * 1024, MAX_FILE_SIZE, MAX_FILE_SIZE + 1}
FileTypes == {"image/jpeg", "image/", "text/plain", "application/image/png", ""}
Files == [size : FileSizes, type : FileTypes]

(***************************************************************************)
(* The replies of the detection service: res.data of a 2xx reply.          *)
(* success is the optional top-level flag (absent = FALSE), currencyCode   *)
(* is "" when absent.                                                      *)
(***************************************************************************)
Payloads ==
    { [success |-> FALSE, currencyCode |-> "USD", confidence |-> "high", percentage |-> 92],
      [success |-> TRUE, currencyCode |-> "", confidence |-> "low", percentage |-> 10],
      [success |-> FALSE, currencyCode |-> "", confidence |-> "low", percentage |-> 0] }

(***************************************************************************)
(* The errors axios.post rejects with.  response is the server's reply     *)
(* (status and body) or null; request tells whether a request object is    *)
(* attached (it is whenever the request was sent); code and message are    *)
(* the AxiosError fields.                                                  *)
(***************************************************************************)
ConnectionError ==
    [response |-> NoResponse, request |-> TRUE, code |-> "ERR_NETWORK", message |-> "Network Error"]
DeadlineError ==
    [response |-> NoResponse, request |-> TRUE, code |-> "ECONNABORTED",
     message |-> "timeout of " \o ToString(REQUEST_TIMEOUT) \o "ms exceeded"]
SetupError ==
    [response |-> NoResponse, request |-> FALSE, code |-> "ERR_BAD_OPTION_VALUE",
     message |-> "options must be an object"]
ResponseError(status, details, err) ==
    [response |-> [status |-> status, data |-> [details |-> details, error |-> err]],
     request |-> TRUE, code |-> "ERR_BAD_RESPONSE", message |-> "Request failed"]

ServerErrors ==
    { ResponseError(500, "", "Internal error"),
      ResponseError(500, "GEMINI_API_KEY is not set", "Detection unavailable"),
      ResponseError(400, "GEMINI_API_KEY is not set", "Detection unavailable"),
      ResponseError(400, "", "No image") }

AxiosErrors == {ConnectionError, DeadlineError, SetupError} \cup ServerErrors

(***************************************************************************)
(* The user-visible messages.                                              *)
(***************************************************************************)
SelectImageFirstMsg == "Please select an image first!"
FileTooLargeMsg == "File size must be less than 10MB."
InvalidSelectMsg == "Please select a valid image file."
InvalidUploadMsg == "Please upload a valid image file."
ConfigurationErrorMsg == "AI Detection Unavailable: configure GEMINI_API_KEY on the backend server."
NetworkErrorMsg == "Network Error: please check that the backend server is running on port 8080."
TimeoutErrorMsg == "Request Timeout: processing the image took too long. Try a smaller image."
LogoutFailedMsg == "Logout failed."
HistoryLoadFailedMsg == "Failed to load history from Firestore."
InitFailedMsg == "Firebase initialization failed. Check __firebase_config."

ServerErrorMsg(status, err) ==
    "Server Error (" \o ToString(status) \o "): "
        \o (IF err # "" THEN err ELSE "Detection failed")

UnknownErrorMsg(message) == "Error: " \o message

(***************************************************************************)
(* The catch block of handleSubmit: the message shown for a thrown error.  *)
(***************************************************************************)
\* The catch block without the error.request branch.
ClassifyErrorNoRequest(err) ==
    IF err.response # NoResponse
    THEN IF err.response.status = 400
         THEN SelectImageFirstMsg
         ELSE IF includes(err.response.data.details, "GEMINI_API_KEY")
              THEN ConfigurationErrorMsg
              ELSE ServerErrorMsg(err.response.status, err.response.data.error)
    ELSE IF err.code = "ECONNABORTED"
         THEN TimeoutErrorMsg
         ELSE UnknownErrorMsg(err.message)

ClassifyError(err) ==
    IF err.response # NoResponse
    THEN IF err.response.status = 400
         THEN SelectImageFirstMsg
         ELSE IF includes(err.response.data.details, "GEMINI_API_KEY")
              THEN ConfigurationErrorMsg
              ELSE ServerErrorMsg(err.response.status, err.response.data.error)
    ELSE IF err.request
         THEN NetworkErrorMsg
         ELSE IF err.code = "ECONNABORTED"
              THEN TimeoutErrorMsg
              ELSE UnknownErrorMsg(err.message)

(***************************************************************************)
(* The retry loop of handleSubmit.                                         *)
(***************************************************************************)
IsLastRetry(k) == k = maxRetries - 1
\* A linear delay, 2 * i instead of 2 ^ i.
BackoffDelayLinear(k) == 2 * k * 1000

BackoffDelay(k) == (2 ^ k) * 1000

LoopContinues(k) == k < maxRetries
\* The loop rethrows the error of its first attempt.
ThrownFirstError(log) == log[1].err

\* throw err: the error that leaves the loop is the one of the attempt
\* that has just failed, the last entry of the attempts made so far.
ThrownError(log) == log[Len(log)].err
\* The updater capped at 100 instead of 90.
TickUpdateTo100(prev, r) == Min(prev + r, 100)

\* The updater of the progress interval; r is Math.random() * 30 rounded down.
TickUpdate(prev, r) == Min(prev + r, PROGRESS_CAP)

TickSteps == {0, 13, PROGRESS_STEP - 1}

\* A save that is not conditional on the reply.
IsRecognizedAlways(data) == TRUE

\* The condition under which handleSubmit saves the result to the history.
IsRecognized(data) == data.success \/ data.currencyCode # ""

\* The error panel shows the retry button for these messages.
RetryVisible(msg) ==
    /\ msg # NoError
    /\ (includes(msg, "Network Error") \/ includes(msg, "Timeout"))

\* The type check with includes instead of startsWith.
IsImageByIncludes(f) == includes(f.type, "image/")

\* The type checks of handleDrop and handleFileChange, the size check of
\* handleFileChange.
IsImage(f) == startsWith(f.type, "image/")

TooLarge(f) == f.size > MAX_FILE_SIZE

(***************************************************************************)
(* The onSnapshot callback: from the documents of a snapshot to the        *)
(* history shown.  Time is counted in half seconds; a Firestore Timestamp  *)
(* has whole seconds and nanoseconds.                                      *)
(***************************************************************************)
TimestampOf(t) == [seconds |-> t \div 2, nanoseconds |-> (t % 2) * 500000000]

\* toLocaleString: the display string has whole seconds.
LocaleString(seconds) == "time " \o ToString(seconds)

\* The object the callback builds for one document; now is new Date().
HistoryItem(doc, now) ==
    [id |-> doc.id,
     result |-> doc.result,
     timestamp |-> IF doc.rawTimestamp # NoTimestamp
                   THEN LocaleString(doc.rawTimestamp.seconds)
                   ELSE LocaleString(TimestampOf(now).seconds),
     rawTimestamp |-> doc.rawTimestamp]

\* b.rawTimestamp?.seconds || 0
SortSeconds(item) ==
    IF item.rawTimestamp = NoTimestamp THEN 0 ELSE item.rawTimestamp.seconds

\* Array.prototype.sort with the comparator (a, b) => seconds(b) - seconds(a):
\* a stable sort, items of equal seconds keep the order they came in.
RECURSIVE InsertDesc(_, _)
InsertDesc(sorted, x) ==
    IF sorted = <<>>
    THEN <<x>>
    ELSE IF SortSeconds(Head(sorted)) >= SortSeconds(x)
         THEN <<Head(sorted)>> \o InsertDesc(Tail(sorted), x)
         ELSE <<x>> \o sorted

RECURSIVE SortDesc(_)
SortDesc(items) ==
    IF items = <<>>
    THEN <<>>
    ELSE InsertDesc(SortDesc(SubSeq(items, 1, Len(items) - 1)), items[Len(items)])

\* slice(0, 10)
Slice(items, n) == SubSeq(items, 1, Min(Len(items), n))

\* The value passed to setHistory for the documents of a snapshot.
NewHistory(docs, now) ==
    Slice(SortDesc([k \in 1..Len(docs) |-> HistoryItem(docs[k], now)]), HISTORY_LIMIT)

\* The orders in which a snapshot can list a set of documents.
RECURSIVE Orders(_)
Orders(S) ==
    IF S = {}
    THEN {<<>>}
    ELSE UNION { { <<d>> \o rest : rest \in Orders(S \ {d}) } : d \in S }

(***************************************************************************)
(* The users the Firebase SDK can sign in, and the session inputs.         *)
(***************************************************************************)
TokenUser == [uid |-> "custom-1", isAnonymous |-> FALSE]
AnonUsers == { [uid |-> "anon-1", isAnonymous |-> TRUE], [uid |-> "anon-2", isAnonymous |-> TRUE] }
Users == {TokenUser} \cup AnonUsers
ConfigStates == {"valid", "invalid", "undefined"}

VARIABLES
    \* React state of CurrencyDetector
    file, preview, result, loading, error, progress, history,
    db, auth, userId, isAuthReady, isAnonymous,
    \* handleSubmit: position, loop index, request body, reply, interval,
    \* and the db and userId of the render whose handler was called
    pc, i, formData, res, progressInterval, subDb, subUserId,
    \* environment: configuration, token, the SDK's current user, pending
    \* auth notifications, the position of the bootstrap, sign-outs pending
    config, token, mounted, fbUser, authQueue, bootPc, signOutsPending,
    \* observations of the current submission: attempts with their outcome,
    \* backoff delays scheduled, what it published, the addDoc calls issued
    attemptLog, waitLog, outcome, addDocLog,
    \* the file list just offered by a drop or by the file input, until
    \* the next event
    offered,
    \* the record store (documents per user id), the user ids with an
    \* active onSnapshot listener, those of them with a notification due,
    \* the dependencies the history effect last ran with, whether the
    \* component is unmounted, whether the auth listener is registered,
    \* and the time in half seconds
    store, subs, snapDue, effectDeps, unmounted, authListening, clock,
    \* counters that bound the exploration
    submits, logouts

reactVars == <<file, preview, result, loading, error, progress, history>>
sessionVars == <<db, auth, userId, isAuthReady, isAnonymous>>
submitVars == <<pc, i, formData, res, progressInterval, subDb, subUserId>>
envVars == <<config, token, mounted, fbUser, authQueue, bootPc, signOutsPending>>
obsVars == <<attemptLog, waitLog, outcome, addDocLog>>
histVars == <<store, subs, snapDue, effectDeps, unmounted, authListening, clock>>
vars == <<reactVars, sessionVars, submitVars, envVars, obsVars, offered, histVars, submits, logouts>>

NoOutcome == [kind |-> "none"]
NoOffer == [via |-> "none", files |-> <<>>]

\* The documents earlier visits have left in the store: none, or for the
\* token user two documents written within one second and one without a
\* timestamp, and one document for an anonymous user.
UserIds == { u.uid : u \in Users }
EmptyStore == [u \in UserIds |-> {}]
OldResult ==
    [success |-> TRUE, currencyCode |-> "EUR", confidence |-> "high", percentage |-> 80]
OldStore ==
    [u \in UserIds |->
        IF u = "custom-1"
        THEN { [id |-> "a", rawTimestamp |-> TimestampOf(2), result |-> OldResult],
               [id |-> "b", rawTimestamp |-> TimestampOf(3), result |-> OldResult],
               [id |-> "c", rawTimestamp |-> NoTimestamp, result |-> OldResult] }
        ELSE IF u = "anon-1"
             THEN { [id |-> "d", rawTimestamp |-> TimestampOf(1), result |-> OldResult] }
             ELSE {}]
InitialStores == {EmptyStore, OldStore}
InitialClock == 2 + 2

(***************************************************************************)
(* The state after the first render: the useState defaults; nothing is in  *)
(* flight.  The configuration, the token and the user the SDK has          *)
(* persisted from an earlier visit are inputs.                             *)
(***************************************************************************)
Init ==
    /\ file = NoFile /\ preview = NoPreview /\ result = NoResult
    /\ loading = FALSE /\ error = NoError /\ progress = 0 /\ history = <<>>
    /\ db = FALSE /\ auth = FALSE /\ userId = NoUserId
    /\ isAuthReady = FALSE /\ isAnonymous = TRUE
    /\ pc = "idle" /\ i = 0 /\ formData = NoFile /\ res = NoResponse
    /\ progressInterval = FALSE /\ subDb = FALSE /\ subUserId = NoUserId
    /\ config \in ConfigStates /\ token \in BOOLEAN
    /\ mounted = FALSE /\ fbUser \in {NoUser} \cup Users
    /\ authQueue = <<>> /\ bootPc = "idle" /\ signOutsPending = 0
    /\ attemptLog = <<>> /\ waitLog = <<>> /\ outcome = NoOutcome /\ addDocLog = <<>>
    /\ offered = NoOffer
    /\ store \in InitialStores /\ subs = {} /\ snapDue = {}
    /\ effectDeps = <<FALSE, FALSE, NoUserId>>
    /\ unmounted = FALSE /\ authListening = FALSE /\ clock = InitialClock
    /\ submits = 0 /\ logouts = 0

(***************************************************************************)
(* File selection: handleDrop, handleFileChange, clearAll.                 *)
(***************************************************************************)
\* onDrop of the drop zone; files is e.dataTransfer.files, a sequence.
handleDrop(files) ==
    /\ ~unmounted
    /\ IF Len(files) > 0
       THEN IF IsImage(files[1])
            THEN /\ file' = files[1]
                 /\ preview' = files[1]
                 /\ error' = NoError
            ELSE /\ error' = InvalidUploadMsg
                 /\ UNCHANGED <<file, preview>>
       ELSE UNCHANGED <<file, preview, error>>
    /\ UNCHANGED <<result, loading, progress, history>>
    /\ UNCHANGED <<sessionVars, submitVars, envVars, obsVars, submits, logouts>>
    /\ offered' = [via |-> "drop", files |-> files]
    /\ UNCHANGED histVars

\* onChange of the file input; files is e.target.files.
handleFileChange(files) ==
    /\ ~unmounted
    /\ IF Len(files) > 0
       THEN IF TooLarge(files[1])
            THEN /\ error' = FileTooLargeMsg
                 /\ UNCHANGED <<file, preview>>
            ELSE IF ~IsImage(files[1])
                 THEN /\ error' = InvalidSelectMsg
                      /\ UNCHANGED <<file, preview>>
                 ELSE /\ file' = files[1]
                      /\ preview' = files[1]
                      /\ error' = NoError
       ELSE UNCHANGED <<file, preview, error>>
    /\ UNCHANGED <<result, loading, progress, history>>
    /\ UNCHANGED <<sessionVars, submitVars, envVars, obsVars, submits, logouts>>
    /\ offered' = [via |-> "picker", files |-> files]
    /\ UNCHANGED histVars

\* The clear button is rendered while a preview is shown.
clearAll ==
    /\ ~unmounted
    /\ preview # NoPreview
    /\ file' = NoFile
    /\ preview' = NoPreview
    /\ result' = NoResult
    /\ error' = NoError
    /\ progress' = 0
    /\ UNCHANGED <<loading, history>>
    /\ UNCHANGED <<sessionVars, submitVars, envVars, obsVars, submits, logouts>>
    /\ offered' = NoOffer
    /\ UNCHANGED histVars

FileLists == {<<>>} \cup { <<f>> : f \in Files }

(***************************************************************************)
(* handleSubmit.  The handler runs without interruption up to its first    *)
(* await (the first axios.post), and between two awaits.                   *)
(***************************************************************************)
\* The body of handleSubmit up to the first await.
handleSubmit ==
    IF file = NoFile
    THEN /\ error' = SelectImageFirstMsg
         /\ UNCHANGED <<file, preview, result, loading, progress, history>>
         /\ UNCHANGED <<submitVars, obsVars>>
    ELSE /\ formData' = file
         /\ loading' = TRUE
         /\ result' = NoResult
         /\ error' = NoError
         /\ progress' = 0
         /\ progressInterval' = TRUE
         /\ i' = 0
         /\ res' = NoResponse
         /\ pc' = "post"
         /\ subDb' = db
         /\ subUserId' = userId
         /\ attemptLog' = <<>>
         /\ waitLog' = <<>>
         /\ outcome' = NoOutcome
         /\ addDocLog' = <<>>
         /\ UNCHANGED <<file, preview, history>>

\* A submit button that is never disabled.
SubmitClickWhileLoading ==
    /\ ~unmounted
    /\ file # NoFile /\ preview # NoPreview
    /\ submits < MaxSubmits
    /\ submits' = submits + 1
    /\ handleSubmit
    /\ UNCHANGED <<sessionVars, envVars, logouts>>
    /\ offered' = NoOffer
    /\ UNCHANGED histVars

\* The submit button: rendered when file && preview, disabled while loading.
SubmitClick ==
    /\ ~unmounted
    /\ file # NoFile /\ preview # NoPreview
    /\ ~loading
    /\ submits < MaxSubmits
    /\ submits' = submits + 1
    /\ handleSubmit
    /\ UNCHANGED <<sessionVars, envVars, logouts>>
    /\ offered' = NoOffer
    /\ UNCHANGED histVars

\* The retry button of the error panel: rendered while the error shown
\* includes 'Network Error' or 'Timeout'; it is never disabled.
retryDetection ==
    /\ ~unmounted
    /\ RetryVisible(error)
    /\ IF file # NoFile
       THEN /\ submits < MaxSubmits
            /\ submits' = submits + 1
            /\ handleSubmit
       ELSE UNCHANGED <<reactVars, submitVars, obsVars, submits>>
    /\ UNCHANGED <<sessionVars, envVars, logouts>>
    /\ offered' = NoOffer
    /\ UNCHANGED histVars

\* The steps after the attempt loop has left with a reply: lines 245-270
\* and the finally block when no addDoc is awaited.
SettleSuccess(data) ==
    /\ progressInterval' = FALSE
    /\ progress' = 100
    /\ result' = data
    /\ outcome' = [kind |-> "result", value |-> data]
    /\ IF IsRecognized(data) /\ subDb /\ subUserId # NoUserId
       THEN /\ addDocLog' = Append(addDocLog,
                                   [uid |-> subUserId,
                                    id |-> "w" \o ToString(submits),
                                    rawTimestamp |-> TimestampOf(clock),
                                    result |-> data,
                                    state |-> "pending"])
            /\ pc' = "addDoc"
            /\ UNCHANGED loading
       ELSE /\ pc' = "idle"
            /\ loading' = FALSE
            /\ UNCHANGED addDocLog
    /\ UNCHANGED error

\* The catch block without clearInterval.
SettleFailureKeepsInterval(msg) ==
    /\ UNCHANGED progressInterval
    /\ progress' = 0
    /\ error' = msg
    /\ outcome' = [kind |-> "error", value |-> msg]
    /\ loading' = FALSE
    /\ pc' = "idle"
    /\ UNCHANGED <<result, addDocLog>>

\* The catch and finally blocks for a thrown error message.
SettleFailure(msg) ==
    /\ progressInterval' = FALSE
    /\ progress' = 0
    /\ error' = msg
    /\ outcome' = [kind |-> "error", value |-> msg]
    /\ loading' = FALSE
    /\ pc' = "idle"
    /\ UNCHANGED <<result, addDocLog>>

\* axios.post resolves with a 2xx reply: break.
AttemptSucceeds(data) ==
    /\ pc = "post"
    /\ attemptLog' = Append(attemptLog, [ok |-> TRUE, data |-> data])
    /\ res' = [data |-> data]
    /\ SettleSuccess(data)
    /\ UNCHANGED <<file, preview, history, i, formData, subDb, subUserId, waitLog>>
    /\ UNCHANGED <<sessionVars, envVars, submits, logouts>>
    /\ offered' = NoOffer
    /\ UNCHANGED histVars

\* axios.post rejects: rethrow on the last retry, else schedule the backoff.
AttemptFails(err) ==
    /\ pc = "post"
    /\ attemptLog' = Append(attemptLog, [ok |-> FALSE, err |-> err])
    /\ IF IsLastRetry(i)
       THEN /\ SettleFailure(ClassifyError(ThrownError(attemptLog')))
            /\ UNCHANGED waitLog
       ELSE /\ waitLog' = Append(waitLog, BackoffDelay(i))
            /\ pc' = "backoff"
            /\ UNCHANGED <<result, loading, error, progress, progressInterval, outcome, addDocLog>>
    /\ UNCHANGED <<file, preview, history, i, formData, res, subDb, subUserId>>
    /\ UNCHANGED <<sessionVars, envVars, submits, logouts>>
    /\ offered' = NoOffer
    /\ UNCHANGED histVars

\* The backoff timer fires: i++, and the next attempt if the loop goes on.
\* If the loop ends without a reply, res is undefined and res.data throws
\* a TypeError after setProgress(100), which the catch block handles.
BackoffElapsed ==
    /\ pc = "backoff"
    /\ i' = i + 1
    /\ IF LoopContinues(i')
       THEN /\ pc' = "post"
            /\ UNCHANGED <<result, loading, error, progress, progressInterval, outcome, addDocLog>>
       ELSE SettleFailure(UnknownErrorMsg("Cannot read properties of undefined (reading 'data')"))
    /\ UNCHANGED <<file, preview, history, formData, res, subDb, subUserId, attemptLog, waitLog>>
    /\ UNCHANGED <<sessionVars, envVars, submits, logouts>>
    /\ offered' = NoOffer
    /\ UNCHANGED histVars

\* The document an addDoc call of the log writes.
WrittenDoc(w) == [id |-> w.id, rawTimestamp |-> w.rawTimestamp, result |-> w.result]

\* addDoc without its catch: a rejection reaches the catch block of
\* handleSubmit.
AddDocSettlesUncaught(ok) ==
    /\ pc = "addDoc"
    /\ addDocLog' = [addDocLog EXCEPT ![Len(addDocLog)].state = IF ok THEN "saved" ELSE "failed"]
    /\ IF ok
       THEN /\ store' = [store EXCEPT ![subUserId] = @ \cup {WrittenDoc(addDocLog[Len(addDocLog)])}]
            /\ snapDue' = snapDue \cup (subs \cap {subUserId})
            /\ pc' = "idle"
            /\ loading' = FALSE
            /\ UNCHANGED <<error, progress, outcome>>
       ELSE /\ progress' = 0
            /\ error' = UnknownErrorMsg("Missing or insufficient permissions.")
            /\ outcome' = [kind |-> "error", value |-> error']
            /\ loading' = FALSE
            /\ pc' = "idle"
            /\ UNCHANGED <<store, snapDue>>
    /\ UNCHANGED <<file, preview, result, history>>
    /\ UNCHANGED <<i, formData, res, progressInterval, subDb, subUserId>>
    /\ UNCHANGED <<sessionVars, envVars, attemptLog, waitLog, submits, logouts>>
    /\ UNCHANGED <<subs, effectDeps, unmounted, authListening, clock>>
    /\ offered' = NoOffer

\* addDoc resolves (the document is in the collection of the path, its
\* listeners are notified) or rejects; both are handled by then/catch,
\* then the finally block runs.
AddDocSettles(ok) ==
    /\ pc = "addDoc"
    /\ pc' = "idle"
    /\ loading' = FALSE
    /\ addDocLog' = [addDocLog EXCEPT ![Len(addDocLog)].state = IF ok THEN "saved" ELSE "failed"]
    /\ IF ok
       THEN /\ store' = [store EXCEPT ![subUserId] = @ \cup {WrittenDoc(addDocLog[Len(addDocLog)])}]
            /\ snapDue' = snapDue \cup (subs \cap {subUserId})
       ELSE UNCHANGED <<store, snapDue>>
    /\ UNCHANGED <<file, preview, result, error, progress, history>>
    /\ UNCHANGED <<i, formData, res, progressInterval, subDb, subUserId>>
    /\ UNCHANGED <<sessionVars, envVars, attemptLog, waitLog, outcome, submits, logouts>>
    /\ UNCHANGED <<subs, effectDeps, unmounted, authListening, clock>>
    /\ offered' = NoOffer

\* The progress interval fires.
Tick(r) ==
    /\ progressInterval
    /\ progress' = TickUpdate(progress, r)
    /\ UNCHANGED <<file, preview, result, loading, error, history>>
    /\ UNCHANGED <<sessionVars, submitVars, envVars, obsVars, submits, logouts>>
    /\ offered' = NoOffer
    /\ UNCHANGED histVars

(***************************************************************************)
(* Session bootstrap: the mount effect and the onAuthStateChanged callback.*)
(***************************************************************************)
\* The first useEffect.  With a valid configuration it creates auth and db
\* and registers the auth listener, which is then told the current user.
InitEffect ==
    /\ ~mounted
    /\ ~unmounted
    /\ mounted' = TRUE
    /\ IF config = "undefined"
       THEN UNCHANGED <<auth, db, error, authQueue, authListening>>
       ELSE IF config = "invalid"
            THEN /\ error' = InitFailedMsg
                 /\ UNCHANGED <<auth, db, authQueue, authListening>>
            ELSE /\ auth' = TRUE
                 /\ db' = TRUE
                 /\ authListening' = TRUE
                 /\ authQueue' = Append(authQueue, fbUser)
                 /\ UNCHANGED error
    /\ UNCHANGED <<store, subs, snapDue, effectDeps, unmounted, clock>>
    /\ UNCHANGED <<file, preview, result, loading, progress, history>>
    /\ UNCHANGED <<userId, isAuthReady, isAnonymous>>
    /\ UNCHANGED <<config, token, fbUser, bootPc, signOutsPending>>
    /\ UNCHANGED <<submitVars, obsVars, submits, logouts>>
    /\ offered' = NoOffer

\* The listener is called with a user: lines 56-59 and 77.
AuthUserNotified ==
    /\ authListening
    /\ authQueue # <<>>
    /\ Head(authQueue) # NoUser
    /\ authQueue' = Tail(authQueue)
    /\ userId' = Head(authQueue).uid
    /\ isAnonymous' = Head(authQueue).isAnonymous
    /\ isAuthReady' = TRUE
    /\ UNCHANGED <<db, auth>>
    /\ UNCHANGED <<config, token, mounted, fbUser, bootPc, signOutsPending>>
    /\ UNCHANGED <<reactVars, submitVars, obsVars, submits, logouts>>
    /\ offered' = NoOffer
    /\ UNCHANGED histVars

\* A bootstrap that always starts with the anonymous sign-in.
FirstSignInAnonymous(tok) == "anon"

\* The sign-in the callback starts with: signInWithCustomToken when
\* __initial_auth_token is defined and truthy, else signInAnonymously.
FirstSignIn(tok) == IF tok THEN "token" ELSE "anon"

\* The listener is called with null: the sign-in of lines 62-70 is started.
AuthNullNotified ==
    /\ authListening
    /\ authQueue # <<>>
    /\ Head(authQueue) = NoUser
    /\ bootPc = "idle"
    /\ authQueue' = Tail(authQueue)
    /\ bootPc' = FirstSignIn(token)
    /\ UNCHANGED <<config, token, mounted, fbUser, signOutsPending>>
    /\ UNCHANGED <<reactVars, sessionVars, submitVars, obsVars, submits, logouts>>
    /\ offered' = NoOffer
    /\ UNCHANGED histVars

\* The awaited sign-in succeeds with user u: the SDK records the user and
\* notifies the listener; the callback goes on to setIsAuthReady(true).
SignInSucceeds(u) ==
    /\ bootPc \in {"token", "anon", "fallback"}
    /\ u.isAnonymous = (bootPc # "token")
    /\ fbUser' = u
    /\ authQueue' = IF authListening THEN Append(authQueue, u) ELSE authQueue
    /\ bootPc' = "idle"
    /\ isAuthReady' = TRUE
    /\ UNCHANGED <<db, auth, userId, isAnonymous>>
    /\ UNCHANGED <<config, token, mounted, signOutsPending>>
    /\ UNCHANGED <<reactVars, submitVars, obsVars, submits, logouts>>
    /\ offered' = NoOffer
    /\ UNCHANGED histVars

\* The awaited sign-in fails: the catch block signs in anonymously; a
\* failure of that sign-in is logged and the callback goes on.
SignInFails ==
    /\ bootPc \in {"token", "anon", "fallback"}
    /\ IF bootPc = "fallback"
       THEN /\ bootPc' = "idle"
            /\ isAuthReady' = TRUE
       ELSE /\ bootPc' = "fallback"
            /\ UNCHANGED isAuthReady
    /\ UNCHANGED <<db, auth, userId, isAnonymous>>
    /\ UNCHANGED <<config, token, mounted, fbUser, authQueue, signOutsPending>>
    /\ UNCHANGED <<reactVars, submitVars, obsVars, submits, logouts>>
    /\ offered' = NoOffer
    /\ UNCHANGED histVars

(***************************************************************************)
(* handleLogout.                                                           *)
(***************************************************************************)
\* The logout button: rendered when userId is set, disabled until the
\* session is ready.  The handler awaits signOut(auth).
LogoutClick ==
    /\ ~unmounted
    /\ userId # NoUserId
    /\ isAuthReady
    /\ logouts < MaxLogouts
    /\ logouts' = logouts + 1
    /\ IF auth
       THEN signOutsPending' = signOutsPending + 1
       ELSE UNCHANGED signOutsPending
    /\ UNCHANGED <<config, token, mounted, fbUser, authQueue, bootPc>>
    /\ UNCHANGED <<reactVars, sessionVars, submitVars, obsVars, submits>>
    /\ offered' = NoOffer
    /\ UNCHANGED histVars

\* signOut resolves: the SDK drops the user and notifies the listener if
\* there was one; the handler then clears the history.
SignOutResolves ==
    /\ signOutsPending > 0
    /\ signOutsPending' = signOutsPending - 1
    /\ fbUser' = NoUser
    /\ authQueue' = IF fbUser # NoUser /\ authListening
                  THEN Append(authQueue, NoUser)
                  ELSE authQueue
    /\ history' = <<>>
    /\ UNCHANGED <<file, preview, result, loading, error, progress>>
    /\ UNCHANGED <<config, token, mounted, bootPc>>
    /\ UNCHANGED <<sessionVars, submitVars, obsVars, submits, logouts>>
    /\ offered' = NoOffer
    /\ UNCHANGED histVars

\* signOut rejects: the catch block of handleLogout.
SignOutRejects ==
    /\ signOutsPending > 0
    /\ signOutsPending' = signOutsPending - 1
    /\ error' = LogoutFailedMsg
    /\ UNCHANGED <<file, preview, result, loading, progress, history>>
    /\ UNCHANGED <<config, token, mounted, fbUser, authQueue, bootPc>>
    /\ UNCHANGED <<sessionVars, submitVars, obsVars, submits, logouts>>
    /\ offered' = NoOffer
    /\ UNCHANGED histVars

(***************************************************************************)
(* The history listener effect and the onSnapshot callbacks.               *)
(***************************************************************************)
\* if (!isAuthReady || !db || !userId) return: whether a run of the effect
\* with these dependencies subscribes.
Subscribes(deps) == deps[1] /\ deps[2] /\ deps[3] # NoUserId

\* The listeners a run of the effect with these dependencies registers:
\* one on the collection of the user id, or none after the early return.
Established(deps) == IF Subscribes(deps) THEN {deps[3]} ELSE {}

\* A cleanup that releases nothing.
ReleasedNone(deps) == {}

\* return () => unsubscribeSnapshot(): the cleanup returned by the run with
\* these dependencies releases the listener that run registered.
Released(deps) == Established(deps)

\* The second useEffect runs after a render in which isAuthReady, db or
\* userId has changed: first the cleanup of its previous run, then the
\* body, which registers a listener whose first snapshot is due.
HistoryEffect ==
    /\ ~unmounted
    /\ <<isAuthReady, db, userId>> # effectDeps
    /\ effectDeps' = <<isAuthReady, db, userId>>
    /\ subs' = (subs \ Released(effectDeps)) \cup Established(effectDeps')
    /\ snapDue' = (snapDue \ Released(effectDeps)) \cup Established(effectDeps')
    /\ UNCHANGED <<store, unmounted, authListening, clock>>
    /\ UNCHANGED <<reactVars, sessionVars, submitVars, envVars, obsVars, submits, logouts>>
    /\ offered' = NoOffer

\* The listener of user id u is called with a snapshot that lists the
\* documents of its collection in the order docs.
SnapshotNotified(u, docs) ==
    /\ u \in subs
    /\ u \in snapDue
    /\ docs \in Orders(store[u])
    /\ history' = NewHistory(docs, clock)
    /\ snapDue' = snapDue \ {u}
    /\ UNCHANGED <<file, preview, result, loading, error, progress>>
    /\ UNCHANGED <<store, subs, effectDeps, unmounted, authListening, clock>>
    /\ UNCHANGED <<sessionVars, submitVars, envVars, obsVars, submits, logouts>>
    /\ offered' = NoOffer

\* The error callback of the listener of user id u; the SDK ends a
\* listener that has failed.
SnapshotFails(u) ==
    /\ u \in subs
    /\ error' = HistoryLoadFailedMsg
    /\ subs' = subs \ {u}
    /\ snapDue' = snapDue \ {u}
    /\ UNCHANGED <<file, preview, result, loading, progress, history>>
    /\ UNCHANGED <<store, effectDeps, unmounted, authListening, clock>>
    /\ UNCHANGED <<sessionVars, submitVars, envVars, obsVars, submits, logouts>>
    /\ offered' = NoOffer

\* The component is unmounted: the cleanups of both effects run.  The
\* auth listener and the snapshot listener are released and their pending
\* notifications are dropped.  Nothing else is cancelled; asynchronous
\* work in flight goes on, and the state variables then hold the values
\* of the latest setter calls.
Unmount ==
    /\ mounted
    /\ ~unmounted
    /\ unmounted' = TRUE
    /\ authListening' = FALSE
    /\ authQueue' = <<>>
    /\ subs' = subs \ Released(effectDeps)
    /\ snapDue' = snapDue \ Released(effectDeps)
    /\ UNCHANGED <<store, effectDeps, clock>>
    /\ UNCHANGED <<config, token, mounted, fbUser, bootPc, signOutsPending>>
    /\ UNCHANGED <<reactVars, sessionVars, submitVars, obsVars, submits, logouts>>
    /\ offered' = NoOffer

\* Time passes.
ClockAdvance ==
    /\ clock < MaxClock + InitialClock
    /\ clock' = clock + 1
    /\ UNCHANGED <<store, subs, snapDue, effectDeps, unmounted, authListening>>
    /\ UNCHANGED <<reactVars, sessionVars, submitVars, envVars, obsVars, submits, logouts>>
    /\ offered' = NoOffer

(***************************************************************************)
(* The specifications.  Spec is the whole component.  The others explore   *)
(* one part of it in depth with the inputs of the other parts fixed.       *)
(***************************************************************************)
Next ==
    \/ \E files \in FileLists : handleDrop(files)
    \/ \E files \in FileLists : handleFileChange(files)
    \/ clearAll
    \/ SubmitClick
    \/ retryDetection
    \/ \E data \in Payloads : AttemptSucceeds(data)
    \/ \E err \in AxiosErrors : AttemptFails(err)
    \/ BackoffElapsed
    \/ \E ok \in BOOLEAN : AddDocSettles(ok)
    \/ \E r \in TickSteps : Tick(r)
    \/ InitEffect
    \/ AuthUserNotified
    \/ AuthNullNotified
    \/ \E u \in Users : SignInSucceeds(u)
    \/ SignInFails
    \/ LogoutClick
    \/ SignOutResolves
    \/ SignOutRejects
    \/ HistoryEffect
    \/ \E u \in UserIds : \E docs \in Orders(store[u]) : SnapshotNotified(u, docs)
    \/ \E u \in UserIds : SnapshotFails(u)
    \/ Unmount
    \/ ClockAdvance

Spec == Init /\ [][Next]_vars

GoodFile == [size |-> 2 * 1024 * 1024, type |-> "image/jpeg"]
UsdPayload ==
    [success |-> FALSE, currencyCode |-> "USD", confidence |-> "high", percentage |-> 92]

\* File selection in depth: every file through both entry points, one
\* kind of reply and one kind of failure, no session.
InitSelect ==
    /\ Init
    /\ config = "undefined" /\ ~token /\ fbUser = NoUser /\ store = EmptyStore

NextSelect ==
    \/ \E files \in FileLists : handleDrop(files)
    \/ \E files \in FileLists : handleFileChange(files)
    \/ clearAll
    \/ SubmitClick
    \/ retryDetection
    \/ AttemptSucceeds(UsdPayload)
    \/ AttemptFails(ConnectionError)
    \/ BackoffElapsed
    \/ Tick(PROGRESS_STEP - 1)

SpecSelect == InitSelect /\ [][NextSelect]_vars

\* The attempt loop in depth: one file, every reply and every failure,
\* with the session bootstrap that makes the history write possible.
InitSubmit ==
    /\ Init
    /\ config = "valid" /\ fbUser = NoUser /\ store = EmptyStore

NextSubmit ==
    \/ handleFileChange(<<GoodFile>>)
    \/ clearAll
    \/ SubmitClick
    \/ retryDetection
    \/ \E data \in Payloads : AttemptSucceeds(data)
    \/ \E err \in AxiosErrors : AttemptFails(err)
    \/ BackoffElapsed
    \/ \E ok \in BOOLEAN : AddDocSettles(ok)
    \/ Tick(PROGRESS_STEP - 1)
    \/ InitEffect
    \/ AuthUserNotified
    \/ AuthNullNotified
    \/ \E u \in Users : SignInSucceeds(u)
    \/ SignInFails

SpecSubmit == InitSubmit /\ [][NextSubmit]_vars

\* The progress estimate in depth: every tick step, one file.
NextProgress ==
    \/ handleFileChange(<<GoodFile>>)
    \/ clearAll
    \/ SubmitClick
    \/ retryDetection
    \/ AttemptSucceeds(UsdPayload)
    \/ \E err \in {ConnectionError, ResponseError(500, "", "Internal error")} : AttemptFails(err)
    \/ BackoffElapsed
    \/ \E r \in TickSteps : Tick(r)

SpecProgress == InitSelect /\ [][NextProgress]_vars

\* The session in depth: bootstrap, sign-out, the registration of the
\* history listener and teardown around a submission, with one file, one
\* reply and one kind of failure; the store starts empty.
InitSession ==
    /\ Init
    /\ config = "valid" /\ store = EmptyStore

NextSession ==
    \/ handleFileChange(<<GoodFile>>)
    \/ SubmitClick
    \/ AttemptSucceeds(UsdPayload)
    \/ AttemptFails(ConnectionError)
    \/ BackoffElapsed
    \/ \E ok \in BOOLEAN : AddDocSettles(ok)
    \/ Tick(PROGRESS_STEP - 1)
    \/ InitEffect
    \/ AuthUserNotified
    \/ AuthNullNotified
    \/ \E u \in Users : SignInSucceeds(u)
    \/ SignInFails
    \/ LogoutClick
    \/ SignOutResolves
    \/ SignOutRejects
    \/ HistoryEffect
    \/ Unmount

SpecSession == InitSession /\ [][NextSession]_vars

\* The history view in depth: the session and the listener without
\* submissions, from every configuration.
NextHistory ==
    \/ InitEffect
    \/ AuthUserNotified
    \/ AuthNullNotified
    \/ \E u \in Users : SignInSucceeds(u)
    \/ SignInFails
    \/ LogoutClick
    \/ SignOutResolves
    \/ SignOutRejects
    \/ HistoryEffect
    \/ \E u \in UserIds : \E docs \in Orders(store[u]) : SnapshotNotified(u, docs)
    \/ \E u \in UserIds : SnapshotFails(u)
    \/ Unmount

InitHistory == Init

SpecHistory == InitHistory /\ [][NextHistory]_vars

\* Submissions and the history listener together: one file, one reply,
\* one kind of failure, no token, no sign-out; the anonymous user anon-1
\* has one record from an earlier visit, and time passes between writes.
AnonOne == [uid |-> "anon-1", isAnonymous |-> TRUE]

InitSync ==
    /\ Init
    /\ config = "valid" /\ ~token
    /\ fbUser \in {NoUser, AnonOne}
    /\ store = OldStore

NextSync ==
    \/ handleFileChange(<<GoodFile>>)
    \/ SubmitClick
    \/ retryDetection
    \/ AttemptSucceeds(UsdPayload)
    \/ AttemptFails(ConnectionError)
    \/ BackoffElapsed
    \/ \E ok \in BOOLEAN : AddDocSettles(ok)
    \/ Tick(PROGRESS_STEP - 1)
    \/ InitEffect
    \/ AuthUserNotified
    \/ AuthNullNotified
    \/ SignInSucceeds(AnonOne)
    \/ SignInFails
    \/ HistoryEffect
    \/ \E u \in UserIds : \E docs \in Orders(store[u]) : SnapshotNotified(u, docs)
    \/ \E u \in UserIds : SnapshotFails(u)
    \/ ClockAdvance

SpecSync == InitSync /\ [][NextSync]_vars

\* SpecHistory with the scheduling the runtime guarantees: a pending
\* effect runs, a queued auth notification and a due snapshot are
\* delivered, a sign-in and a sign-out settle.  Nothing obliges the user
\* to click, the component to unmount or the listener to fail.
FairHistory ==
    /\ WF_vars(InitEffect)
    /\ WF_vars(HistoryEffect)
    /\ WF_vars(AuthUserNotified)
    /\ WF_vars(AuthNullNotified)
    /\ WF_vars((\E u \in Users : SignInSucceeds(u)) \/ SignInFails)
    /\ WF_vars(SignOutResolves \/ SignOutRejects)
    /\ WF_vars(\E u \in UserIds : \E docs \in Orders(store[u]) : SnapshotNotified(u, docs))

SpecHistoryLive == SpecHistory /\ FairHistory

\* SpecSync with the scheduling a submission can rely on: every network
\* attempt ends, with a reply or with a failure, and every backoff timer
\* fires.  Nothing obliges addDoc to settle.
FairSubmit ==
    /\ WF_vars((\E data \in Payloads : AttemptSucceeds(data))
                \/ (\E err \in AxiosErrors : AttemptFails(err)))
    /\ WF_vars(BackoffElapsed)

SpecSyncLive == SpecSync /\ FairSubmit

TypeOK ==
    /\ file \in Files \cup {NoFile}
    /\ progress \in 0..100
    /\ pc \in {"idle", "post", "backoff", "addDoc"}
    /\ loading = (pc # "idle")

(***************************************************************************)
(* Properties.                                                             *)
(***************************************************************************)
InFlight == pc \in {"post", "backoff"}

Failed(k) == k \in 1..Len(attemptLog) /\ ~attemptLog[k].ok

AllThreeFailed == Len(attemptLog) = 3 /\ \A k \in 1..3 : ~attemptLog[k].ok

HasResponse(err) == err.response # NoResponse

HasImagePrefix(t) == Len(t) >= 6 /\ SubSeq(t, 1, 6) = "image/"

\* C1: no network call to the detection service is ever issued for a file
\* larger than 10 MB, whether it was chosen with the file input or dropped;
\* the request body of a submission in flight is never such a file.
C1_OversizeNeverPosted ==
    (pc # "idle") => formData.size <= 10485760

\* C2: a file whose MIME type does not start with "image/" is rejected
\* with a validation error when it is offered through the file input or
\* dropped, never becomes the selected file, and is never the body of a
\* network call.
C2_NonImageRejected ==
    /\ (file # NoFile) => HasImagePrefix(file.type)
    /\ (pc # "idle") => HasImagePrefix(formData.type)
    /\ \A f \in Files :
         (offered.files = <<f>> /\ ~HasImagePrefix(f.type))
            => /\ file # f
               /\ error = (IF offered.via = "drop"
                           THEN InvalidUploadMsg
                           ELSE IF f.size > 10485760 THEN FileTooLargeMsg
                                ELSE InvalidSelectMsg)

\* C2 witness: a non-image file has just been dropped while an image is
\* selected and a submission of that image is in flight.
C2_Witness ==
    /\ offered.via = "drop"
    /\ offered.files = <<[size |-> 2097152, type |-> "application/image/png"]>>
    /\ file # NoFile
    /\ pc = "post"

\* C3: a submission issues at most 3 network attempts, and after an
\* attempt has succeeded it issues no further attempt.
C3_AtMostThreeAttempts ==
    /\ Len(attemptLog) + (IF pc = "post" THEN 1 ELSE 0) <= 3
    /\ \A k \in 1..Len(attemptLog) :
         attemptLog[k].ok => (k = Len(attemptLog) /\ ~InFlight)

\* C3 witness: the third attempt has been made and has succeeded.
C3_Witness ==
    /\ Len(attemptLog) = 3
    /\ attemptLog[3].ok
    /\ ~InFlight

\* C4: when attempts 1 and 2 fail and attempt 3 succeeds, exactly two
\* backoff waits were scheduled, 1000 ms and then 2000 ms, none before the
\* first attempt and none after the last, and the published result is the
\* reply of attempt 3.
C4_BackoffThenSuccess ==
    /\ (attemptLog = <<>>) => (waitLog = <<>>)
    /\ (Failed(1) /\ Failed(2) /\ Len(attemptLog) = 3 /\ attemptLog[3].ok)
         => /\ waitLog = <<1000, 2000>>
            /\ res = [data |-> attemptLog[3].data]
            /\ outcome = [kind |-> "result", value |-> attemptLog[3].data]

\* C4 witness: two failures, then a success whose reply differs from the
\* other replies the service can give.
C4_Witness ==
    /\ Failed(1) /\ Failed(2)
    /\ Len(attemptLog) = 3
    /\ attemptLog[3].ok
    /\ attemptLog[3].data.currencyCode = "USD"
    /\ result = attemptLog[3].data

\* C5: when all 3 attempts fail, the error shown is the classification of
\* the failure of attempt 3, whatever the failures of attempts 1 and 2.
C5_LastErrorClassified ==
    AllThreeFailed =>
        /\ outcome.kind = "error"
        /\ outcome.value = ClassifyError(attemptLog[3].err)

\* C5 witness: three failures, the first classified differently from the
\* third, the error of the third shown.
C5_Witness ==
    /\ AllThreeFailed
    /\ attemptLog[1].err = ConnectionError
    /\ attemptLog[3].err = ResponseError(500, "", "Internal error")
    /\ error = "Server Error (500): Internal error"

\* C6: an attempt that ends with a reply of non-2xx status ends the
\* submission: the error is shown at once, no backoff wait is scheduled
\* and no further attempt is made.
C6_ServerErrorNotRetried ==
    \A k \in 1..Len(attemptLog) :
        (Failed(k) /\ HasResponse(attemptLog[k].err))
            => /\ k = Len(attemptLog)
               /\ Len(waitLog) < k
               /\ pc = "idle"
               /\ outcome.kind = "error"

\* C7: when the last attempt ends because it exceeded its deadline (code
\* ECONNABORTED, a request object, no response), the error shown is the
\* timeout error.
C7_TimeoutClassified ==
    (/\ AllThreeFailed
     /\ attemptLog[3].err.code = "ECONNABORTED"
     /\ attemptLog[3].err.request
     /\ ~HasResponse(attemptLog[3].err))
        => outcome = [kind |-> "error", value |-> TimeoutErrorMsg]

\* C8: when the error of the last attempt carries a reply whose details
\* contain GEMINI_API_KEY, the error shown is the configuration error,
\* for every non-2xx status of the reply, 400 included.
C8_ConfigurationClassified ==
    (/\ AllThreeFailed
     /\ HasResponse(attemptLog[3].err)
     /\ includes(attemptLog[3].err.response.data.details, "GEMINI_API_KEY"))
        => outcome = [kind |-> "error", value |-> ConfigurationErrorMsg]

IsConnectionError(err) ==
    ~HasResponse(err) /\ err.request /\ err.code # "ECONNABORTED"

\* C9: when all 3 attempts fail with connection errors (no response
\* received), the error shown is the network error, progress is 0 once
\* the submission has settled, the result stays empty and no history
\* write is issued.
C9_NetworkFailure ==
    (AllThreeFailed /\ \A k \in 1..3 : IsConnectionError(attemptLog[k].err))
        => /\ outcome = [kind |-> "error", value |-> NetworkErrorMsg]
           /\ pc = "idle" /\ ~loading
           /\ progress = 0
           /\ result = NoResult
           /\ addDocLog = <<>>
           /\ ~progressInterval

\* C9 witness: three connection errors with a ready session, the network
\* error on display.
C9_Witness ==
    /\ AllThreeFailed
    /\ \A k \in 1..3 : attemptLog[k].err = ConnectionError
    /\ error = NetworkErrorMsg
    /\ subDb /\ subUserId # NoUserId
    /\ progress = 0

\* C10: progress always lies in [0, 100], and while a submission is in
\* flight, from its start until its attempt loop settles, progress does
\* not exceed 90, whatever the ticks add.
C10_ProgressBounded ==
    /\ progress >= 0 /\ progress <= 100
    /\ InFlight => progress <= 90

\* C10 witness: a tick has hit the cap while the submission is in flight.
C10_Witness ==
    /\ InFlight
    /\ progress = 90

\* C11: when the attempt loop of a submission settles, the progress
\* interval is cleared in the same step in which the outcome is published,
\* on the success and on the failure path: progress is then exactly 100
\* after a reply and exactly 0 after a terminal failure, and no interval
\* is live, so that no tick changes progress, while no submission is in
\* flight.
C11_TickerCancelledAtSettle ==
    [][ /\ (InFlight /\ ~InFlight')
            => /\ ~progressInterval'
               /\ outcome'.kind \in {"result", "error"}
               /\ outcome'.kind = "result" => (progress' = 100 /\ result' = outcome'.value)
               /\ outcome'.kind = "error" => (progress' = 0 /\ error' = outcome'.value)
        /\ ~InFlight' => ~progressInterval'
      ]_vars

\* C11 witness: a submission has failed for good after ticks, progress is
\* 0 and no interval is live.
C11_Witness ==
    /\ AllThreeFailed
    /\ outcome.kind = "error"
    /\ pc = "idle"
    /\ progress = 0
    /\ ~progressInterval

\* C12: while a submission is in flight nothing but its own ticker and
\* its settlement changes progress or the result: progress does not go
\* down and the result stays as it is from submit start to settlement.
C12_ProgressOwnedInFlight ==
    [][ (InFlight /\ InFlight') => (progress' >= progress /\ result' = result) ]_vars

\* C13: once the component is torn down, the store subscription and the
\* auth listener are released, none of their notifications is pending, and
\* no progress interval is live, also when a submission is in flight.
C13_TeardownReleasesAll ==
    unmounted =>
        /\ subs = {}
        /\ snapDue = {}
        /\ ~authListening
        /\ authQueue = <<>>
        /\ ~progressInterval

\* C14: a history write is issued only by a submission that succeeded
\* with a reply whose success flag is true or whose currencyCode is not
\* empty; the write carries that reply, a submission issues at most one
\* write, and a failed submission or a reply with neither field issues
\* none.
C14_WriteOnlyWhenRecognized ==
    /\ Len(addDocLog) <= 1
    /\ (addDocLog # <<>>)
         => /\ outcome.kind = "result"
            /\ attemptLog[Len(attemptLog)].ok
            /\ addDocLog[1].result = outcome.value
            /\ (outcome.value.success = TRUE \/ outcome.value.currencyCode # "")
    /\ (outcome.kind = "result" /\ ~outcome.value.success /\ outcome.value.currencyCode = "")
         => addDocLog = <<>>
    /\ (outcome.kind = "error") => addDocLog = <<>>

\* C14 witness: a write issued for a reply that has the success flag and
\* no currency code, after one failed attempt.
C14_Witness ==
    /\ Len(addDocLog) = 1
    /\ addDocLog[1].result.success
    /\ addDocLog[1].result.currencyCode = ""
    /\ Len(attemptLog) = 2

\* C15: the end of a history write, failure included, changes neither the
\* result nor progress nor the error, issues no further write and ends
\* the submission; a failed write leaves a submission that succeeded.
C15_WriteFailureSwallowed ==
    [][ (pc = "addDoc" /\ pc' # "addDoc")
            => /\ result' = result
               /\ progress' = progress
               /\ error' = error
               /\ outcome' = outcome
               /\ outcome.kind = "result"
               /\ Len(addDocLog') = 1
               /\ pc' = "idle"
               /\ ~loading'
      ]_vars

\* C15 witness: the write has failed; the result is on display, progress
\* is 100 and no error is set.
C15_Witness ==
    /\ Len(addDocLog) = 1
    /\ addDocLog[1].state = "failed"
    /\ pc = "idle"
    /\ result = addDocLog[1].result
    /\ progress = 100
    /\ error = NoError

\* C16: a history write is issued only while the session is ready, that
\* is while a user is signed in and recorded as the identity; before the
\* bootstrap has completed and between a sign-out and the end of the next
\* bootstrap no write is issued.
C16_NoWriteUnlessReady ==
    [][ (Len(addDocLog') > Len(addDocLog))
            => /\ fbUser # NoUser
               /\ isAuthReady
               /\ userId = fbUser.uid
      ]_vars

\* Whether history item a is later than history item b by rawTimestamp;
\* an item without one counts as the earliest.
Later(a, b) ==
    /\ a.rawTimestamp # NoTimestamp
    /\ \/ b.rawTimestamp = NoTimestamp
       \/ a.rawTimestamp.seconds > b.rawTimestamp.seconds
       \/ /\ a.rawTimestamp.seconds = b.rawTimestamp.seconds
          /\ a.rawTimestamp.nanoseconds > b.rawTimestamp.nanoseconds

\* C17: the history view holds at most ten records and is strictly
\* descending by rawTimestamp, whatever records the listener delivered.
C17_ViewSortedTopTen ==
    /\ Len(history) <= HISTORY_LIMIT
    /\ \A k \in 1..(Len(history) - 1) : Later(history[k], history[k + 1])

\* C18: the view a snapshot produces depends only on the set of records:
\* every order in which the records of the collection can be listed gives
\* the view that was published.
C18_ViewOrderIndependent ==
    [][ \A u \in UserIds :
          (u \in snapDue /\ u \notin snapDue' /\ u \in subs')
              => \A q \in Orders(store[u]) : history' = NewHistory(q, clock)
      ]_vars

\* C19: at most one store listener is registered at any time, it is the
\* one of the identity the effect last ran for, and a snapshot is applied
\* only for a listener that is registered.
C19_SingleSubscription ==
    [][ /\ Cardinality(subs') <= 1
        /\ subs' \subseteq {effectDeps'[3]}
        /\ snapDue' \subseteq subs'
        /\ (history' # history /\ history' # <<>>)
              => \E u \in subs \cap {effectDeps[3]} :
                    \E q \in Orders(store[u]) : history' = NewHistory(q, clock)
      ]_vars

\* The listener of anon-1 has replaced the one of custom-1, whose records
\* the view still shows.
C19_Witness ==
    /\ subs = {"anon-1"}
    /\ effectDeps[3] = "anon-1"
    /\ logouts = 1
    /\ history # <<>>
    /\ \A k \in 1..Len(history) : history[k].id \in {"a", "b", "c"}

\* C20: the step that starts a sign-out empties the history view, before
\* signOut has settled and whether it resolves or rejects.
C20_ClearedAtSignOutStart ==
    [][ (logouts' # logouts) => history' = <<>> ]_vars

\* The ids of the records in the collection of user id u.
RecordIds(u) == { d.id : d \in store[u] }

\* C21: the history view never shows a record of an identity that is no
\* longer signed in: with no user signed in it is empty, and with a user
\* signed in every record of the view is a record of that user.
C21_NoResidualRecords ==
    IF fbUser = NoUser
    THEN history = <<>>
    ELSE \A k \in 1..Len(history) : history[k].id \in RecordIds(fbUser.uid)

\* C22: while no user is signed in and a sign-in of the bootstrap is
\* under way, at the first bootstrap and after a sign-out alike, the
\* session is not ready and no identity is recorded.
C22_SignOutResetsSession ==
    (fbUser = NoUser /\ bootPc # "idle")
        => (~isAuthReady /\ userId = NoUserId)

\* C23: whenever the session is ready, a user is signed in and the
\* recorded identity and its anonymous flag are those of that user.
C23_ReadyHasIdentity ==
    isAuthReady
        => /\ userId # NoUserId
           /\ fbUser # NoUser
           /\ userId = fbUser.uid
           /\ isAnonymous = fbUser.isAnonymous

\* C24: a bootstrap starts only when no user is signed in; with a token
\* its first sign-in is the credentialed one, and when that fails the
\* anonymous sign-in follows; without a token its first sign-in is the
\* anonymous one and no credentialed sign-in is ever under way.
C24_SignInOrder ==
    [][ /\ (bootPc = "idle" /\ bootPc' # "idle")
            => /\ fbUser = NoUser
               /\ bootPc' = (IF token THEN "token" ELSE "anon")
        /\ (bootPc = "token" /\ bootPc' # "token")
            => \/ bootPc' = "idle" /\ fbUser' = TokenUser
               \/ bootPc' = "fallback" /\ fbUser' = NoUser
        /\ (bootPc' = "token") => token
      ]_vars

\* C24 witness: after a sign-out the credentialed sign-in of the next
\* bootstrap has failed and the anonymous sign-in is under way.
C24_Witness ==
    /\ logouts = 1
    /\ token
    /\ fbUser = NoUser
    /\ bootPc = "fallback"

\* C25: the step in which the anonymous fallback settles sets an error
\* when the fallback has failed too, and changes no error when it has
\* succeeded.
C25_DoubleFailureSurfaces ==
    [][ (bootPc = "fallback" /\ bootPc' = "idle")
            => IF fbUser' = NoUser
               THEN error' # NoError
               ELSE error' = error
      ]_vars

\* C26: without a valid configuration the mount effect surfaces an error,
\* the session never becomes ready, no sign-in is ever under way, no auth
\* listener and no store listener is ever registered.
C26_ConfigurationFatal ==
    (config # "valid")
        => /\ mounted => error # NoError
           /\ ~isAuthReady /\ userId = NoUserId
           /\ ~auth /\ ~db
           /\ bootPc = "idle" /\ ~authListening /\ authQueue = <<>>
           /\ subs = {} /\ snapDue = {}

\* C27: a step in which a callback of the store listener runs, the
\* snapshot callback or the error callback, leaves file, result, loading,
\* progress and error as they were.
C27_StoreCallbacksFrame ==
    [][ ( \/ \E u \in UserIds : SnapshotFails(u)
          \/ \E u \in UserIds : \E docs \in Orders(store[u]) : SnapshotNotified(u, docs) )
            => UNCHANGED <<file, result, loading, progress, error>>
      ]_vars

\* C28: a submission starts only while none is in flight, and a network
\* attempt is issued only when none is outstanding: the first attempt at
\* the start of a submission, attempt k + 1 only after attempt k has been
\* recorded as failed and its backoff has elapsed.
C28_OneAttemptOutstanding ==
    [][ /\ (submits' # submits) => (pc = "idle" /\ ~loading)
        /\ (pc' = "post" /\ pc # "post")
              => \/ pc = "idle" /\ submits' = submits + 1 /\ attemptLog' = <<>>
                 \/ /\ pc = "backoff"
                    /\ submits' = submits
                    /\ Len(attemptLog) = i' /\ Failed(i')
        /\ (pc = "post" /\ pc' = "post") => attemptLog' = attemptLog
      ]_vars

\* C28 witness: in the second submission the second attempt is outstanding
\* after the first has failed.
C28_Witness ==
    /\ submits = 2
    /\ pc = "post"
    /\ i = 1
    /\ Len(attemptLog) = 1 /\ Failed(1)

\* The session is ready for the user who is signed in and the listener
\* on that user's collection is registered.
ReadyAndListening ==
    /\ isAuthReady
    /\ fbUser # NoUser
    /\ userId = fbUser.uid
    /\ userId \in subs

\* The view is what a snapshot of the collection of the recorded identity
\* gives, in some order of delivery.
ViewCurrent ==
    /\ userId # NoUserId
    /\ \E q \in Orders(store[userId]) : history = NewHistory(q, clock)

\* C29: whenever the session is ready and the listener of the current
\* identity is registered, the view eventually shows the records of that
\* identity's collection, unless the session or the listener ends first;
\* no new write is needed for that.
C29_ViewEventuallyCurrent ==
    ReadyAndListening ~> (ViewCurrent \/ ~ReadyAndListening)

\* C30: every addDoc call is issued while a user is signed in and goes to
\* the collection of that user, also when the submission started under
\* another identity.
C30_WriteToCurrentIdentity ==
    [][ (Len(addDocLog') > Len(addDocLog))
            => /\ fbUser # NoUser
               /\ addDocLog'[Len(addDocLog')].uid = fbUser.uid
      ]_vars

\* C31: every submission that has started settles: loading, once true,
\* becomes false again, provided every network attempt ends and every
\* backoff elapses, whether or not the history write ever settles.
C31_SubmissionSettles ==
    loading ~> ~loading

====
